---- MODULE Spec2Model ----
(***************************************************************************)
(* Model of the reconciliation loop of estafette-gcloud-mig-scaler         *)
(* (main.go): for every configured managed instance group it queries       *)
(* Prometheus for a request rate, computes a minimum number of instances,  *)
(* reads the instance group manager, sets three gauges and, when enabled,  *)
(* reads the autoscaler and updates its MinNumReplicas when it differs.    *)
(*                                                                         *)
(* Rates and capacities are decimal numbers with one fractional digit,     *)
(* held as integers in tenths (58.0 is 580, 5.8 is 58); float64 rounding   *)
(* is not modelled.  Go's 64-bit int is modelled with a narrower word,     *)
(* IntMin..IntMax, with the same wrap-around arithmetic.                   *)
(***************************************************************************)
EXTENDS Integers, Sequences, FiniteSets, TLC

\* ------------------------------------------------------------------ bounds
\* largest number of targets in the configured list
MaxTargets == 2
\* largest value of the modelled int word (Go: 2^63 - 1)
IntMax == 32767

\* the ranges the calculation is checked over: rates and capacities in tenths
MaxRate == 64
MaxCapacity == 12
MaxFloor == 3
MaxMargin == 3

\* largest number of open response bodies that is followed
MaxOpenBodies == 3

IntMin == -IntMax - 1

\* ------------------------------------------------------------- input sets
GroupNames == {"mig-a", "mig-b"}
Locations == {"", "loc"}
\* numberOfRequestsPerInstance, in tenths (0 is the value of an absent field)
Capacities == {0, 58, 60}
\* numberOfInstancesBelowTarget
Margins == {0, 2}
\* minimumNumberOfInstances
Floors == {0, 3}
\* request rates the metrics backend reports, in tenths
Rates == {0, 580}
\* target sizes the instance group manager reports
TargetSizes == {4}
\* MinNumReplicas values an autoscaler holds before the loop touches it, and
\* the values another actor sets
PolicyMinimums == {5}

\* MIGConfiguration (GCloudProject and RequestRateQuery are passed through to
\* the backends and do not influence the loop)
MIGConfiguration ==
  [GCloudZone : Locations,
   GCloudRegion : Locations,
   InstanceGroupName : GroupNames,
   MinimumNumberOfInstances : Floors,
   NumberOfRequestsPerInstance : Capacities,
   NumberOfInstancesBelowTarget : Margins,
   EnableSettingMinInstances : BOOLEAN]


\* the targets a configured list is drawn from: regional, zonal, with both
\* location fields, with neither, observing only, and with an absent capacity
Target(zone, region, name, floor, capacity, margin, enable) ==
  [GCloudZone |-> zone,
   GCloudRegion |-> region,
   InstanceGroupName |-> name,
   MinimumNumberOfInstances |-> floor,
   NumberOfRequestsPerInstance |-> capacity,
   NumberOfInstancesBelowTarget |-> margin,
   EnableSettingMinInstances |-> enable]

Targets ==
  {Target("", "loc", "mig-a", 3, 58, 2, TRUE),
   Target("loc", "", "mig-b", 0, 60, 0, TRUE),
   Target("loc", "", "mig-a", 3, 58, 2, FALSE),
   Target("", "", "mig-b", 3, 58, 2, TRUE),
   Target("loc", "loc", "mig-a", 3, 0, 2, TRUE)}

\* the value of the --mig-config flag: text that json.Unmarshal rejects, or a
\* JSON array of targets
ConfigInputs ==
  {[wellFormed |-> FALSE, items |-> << >>]}
    \cup UNION {{[wellFormed |-> TRUE, items |-> s] : s \in [1..n -> Targets]} :
                n \in 0..MaxTargets}

\* bodies the metrics backend answers with: undecodable bytes, or a query
\* response holding a list of series values
Bodies ==
  {[decodable |-> FALSE, result |-> << >>]}
    \cup {[decodable |-> TRUE, result |-> s] :
          s \in {<< >>} \cup {<<r>> : r \in Rates} \cup {<<0, 580>>}}

\* what pester.Get and ioutil.ReadAll deliver
Responses ==
  {[getErr |-> TRUE, readErr |-> FALSE, body |-> [decodable |-> FALSE, result |-> << >>]],
   [getErr |-> FALSE, readErr |-> TRUE, body |-> [decodable |-> FALSE, result |-> << >>]]}
    \cup {[getErr |-> FALSE, readErr |-> FALSE, body |-> b] : b \in Bodies}

\* the inputs of the specification of the calculation alone: one target,
\* every capacity, margin and minimum of a range, and a response holding one
\* series with any rate of a range
WideTargets ==
  {Target("", "loc", "mig-a", floor, capacity, margin, TRUE) :
     floor \in 0..MaxFloor,
     capacity \in (0..MaxCapacity) \cup Capacities,
     margin \in 0..MaxMargin}

WideResponses ==
  {[getErr |-> FALSE, readErr |-> FALSE, body |-> [decodable |-> TRUE, result |-> <<r>>]] :
     r \in (0..MaxRate) \cup Rates}

\* ------------------------------------------------------------------- state
VARIABLES
  migConfig,                \* the --mig-config flag
  proc,                     \* the process: starting, running, fatal, panicked, stopped
  pc,                       \* position of the loop inside the body for one target
  idx,                      \* index of configItem in migConfigs
  resp,                     \* local resp and body: << >> or <<the response>>
  requestRate,              \* local requestRate
  minimumNumberOfInstances, \* local minimumNumberOfInstances
  migTargetSize,            \* local migTargetSize
  autoScaler,               \* local autoScaler: << >> or <<the object>>
  autoscalerList,           \* local autoscalerList and err: << >> or <<the result>>
  sleepTime,                \* the last sleepTime drawn, where it is recorded
  minInstancesVector,       \* gauge: label -> value
  actualInstancesVector,    \* gauge: label -> value
  requestRateVector,        \* gauge: label -> value
  cloud,                    \* the autoscaler of each target's group, at the provider
  \* history of the reconciliation in progress (or, between two targets, of
  \* the one that just ended)
  calls,                    \* backend calls made, in order
  failedAt,                 \* the step that failed, "none" if none did
  readMinimum,              \* << >> or <<MinNumReplicas as the list call returned it>>
  gaugeChanged,             \* a gauge value was changed
  attempted,                \* targets whose reconciliation started in this cycle
  disturbed,                \* another actor changed the autoscaler after it was read
  \* history across reconciliations
  previous,                 \* per target: << >>, or <<desired minimum>> of its last
                            \* reconciliation when that read one autoscaler, no step
                            \* of it failed and no other actor has changed the
                            \* autoscaler since it was read
  \* what runs beside the loop
  peer,                     \* a second instance of the program, at its autoscaler steps
  scraped,                  \* << >> or <<what the metrics endpoint last served>>
  openBodies                \* response bodies not closed yet, where they are counted

vars ==
  <<migConfig, proc, pc, idx, resp, requestRate, minimumNumberOfInstances, migTargetSize,
    autoScaler, minInstancesVector, actualInstancesVector, requestRateVector, cloud,
    calls, failedAt, readMinimum, gaugeChanged, attempted,
    disturbed, previous, autoscalerList, sleepTime, peer, scraped,
    openBodies>>

migConfigs == migConfig.items

configItem == migConfigs[idx]


\* ------------------------------------------------------------ pure helpers
\* Go's int arithmetic wraps around
Wrap(n) == ((n - IntMin) % (IntMax - IntMin + 1)) + IntMin

\* a variant that rounds the quotient down
CeilRoundingDown(rate, capacity) == rate \div capacity

\* math.Ceil of the quotient of a rate >= 0 by a capacity > 0
Ceil(rate, capacity) == -((-rate) \div capacity)

\* int(math.Ceil(requestRate / NumberOfRequestsPerInstance)): with capacity 0
\* the quotient is NaN (rate 0) or +Inf, and the conversion of either to int
\* is implementation-dependent: the smallest int on amd64; 0, respectively
\* the largest int, where the conversion saturates
TargetNumberOfInstances(rate, capacity) ==
  IF capacity # 0 THEN {Ceil(rate, capacity)}
  ELSE IF rate = 0 THEN {IntMin, 0}
  ELSE {IntMin, IntMax}

\* a variant without the clamp to the configured minimum
MinimumNumberOfInstancesUnclamped(target, item) ==
  Wrap(target - item.NumberOfInstancesBelowTarget)

\* the subtraction of the margin and the clamp to the configured minimum
MinimumNumberOfInstances(target, item) ==
  LET m == Wrap(target - item.NumberOfInstancesBelowTarget)
  IN  IF m < item.MinimumNumberOfInstances THEN item.MinimumNumberOfInstances ELSE m

\* a variant that adds the margin to the target
CalculateMinimumAddingMargin(rate, item) ==
  {MinimumNumberOfInstances(t, [item EXCEPT !.NumberOfInstancesBelowTarget =
                                              -item.NumberOfInstancesBelowTarget]) :
     t \in TargetNumberOfInstances(rate, item.NumberOfRequestsPerInstance)}

\* the values the calculation of the minimum can yield
CalculateMinimum(rate, item) ==
  {MinimumNumberOfInstances(t, item) :
     t \in TargetNumberOfInstances(rate, item.NumberOfRequestsPerInstance)}

\* UnmarshalPrometheusQueryResponse: fails on a payload that is not the
\* expected schema
UnmarshalPrometheusQueryResponseErr(body) == ~body.decodable

\* GetRequestRate: the value of the only series; fails unless the result
\* holds exactly one series
GetRequestRateErr(body) == Len(body.result) # 1

GetRequestRate(body) == IF Len(body.result) = 1 THEN body.result[1] ELSE 0

\* a variant that does not check the error of GetRequestRate
QueryFailureIgnoringRateError(r) ==
  IF r.getErr THEN "fetch"
  ELSE IF r.readErr THEN "read"
  ELSE IF UnmarshalPrometheusQueryResponseErr(r.body) THEN "decode"
  ELSE "none"

\* the error checks of the metrics step, in the order of the code: the step
\* that fails, or "none"
QueryFailure(r) ==
  IF r.getErr THEN "fetch"
  ELSE IF r.readErr THEN "read"
  ELSE IF UnmarshalPrometheusQueryResponseErr(r.body) THEN "decode"
  ELSE IF GetRequestRateErr(r.body) THEN "rate"
  ELSE "none"

\* a variant that updates whatever the autoscaler holds
NeedsUpdateAlways(as, minimum) == TRUE

\* the comparison that guards the update
NeedsUpdate(as, minimum) == as.MinNumReplicas # minimum

\* a variant that takes the first autoscaler of a list of several
LookupFailureAcceptingSeveral(res) ==
  IF res.err THEN "list"
  ELSE IF res.count = 0 THEN "count"
  ELSE "none"

\* the checks on the result of the autoscaler lookup: the step that fails, or
\* "none"
LookupFailure(res) ==
  IF res.err THEN "list"
  ELSE IF res.count # 1 THEN "count"
  ELSE "none"

\* a variant that builds the object to submit from scratch
SubmittedAutoscalerRebuilt(as, minimum) ==
  [MinNumReplicas |-> minimum, MaxNumReplicas |-> 0]

\* a variant in which the assignment of MinNumReplicas is missing
SubmittedAutoscalerUnassigned(as, minimum) == as

\* the object passed to Update: the one that was read, with its
\* MinNumReplicas assigned
SubmittedAutoscaler(as, minimum) == [as EXCEPT !.MinNumReplicas = minimum]

\* the nominal number of seconds between two cycles
Interval == 60

\* int(0.25 * float64(input)), for input >= 0
Deviation(input) == input \div 4

\* a variant in which the random term can reach twice the deviation
ApplyJitterInclusive(input) ==
  {input - Deviation(input) + n : n \in 0..(2 * Deviation(input))}

\* applyJitter: the values it can return, r.Intn(n) being any of 0..n-1
ApplyJitter(input) ==
  {input - Deviation(input) + n : n \in 0..(2 * Deviation(input) - 1)}

\* a variant that keeps the value a label already has
SetGaugeIfAbsent(vec, label, value) ==
  [l \in DOMAIN vec \cup {label} |-> IF l \in DOMAIN vec THEN vec[l] ELSE value]

\* GaugeVec.WithLabelValues(label).Set(value)
SetGauge(vec, label, value) ==
  [l \in DOMAIN vec \cup {label} |-> IF l = label THEN value ELSE vec[l]]

\* the API family the location fields select: the region wins over the zone
Family(item) ==
  IF item.GCloudRegion # "" THEN "Region"
  ELSE IF item.GCloudZone # "" THEN "Zone"
  ELSE "None"

\* a variant that does not test EnableSettingMinInstances
SetsMinInstancesIgnoringFlag(item) == Family(item) # "None"

\* the tests that lead to the lookup of the autoscaler: the flag, and one of
\* the location fields
SetsMinInstances(item) == item.EnableSettingMinInstances /\ Family(item) # "None"

\* the target the history of the reconciliation is about: configItem, or
\* between two targets the one whose body just ended
HistoryTarget ==
  IF pc = "sleep" THEN Len(migConfigs)
  ELSE IF pc = "fetch" THEN idx - 1
  ELSE idx

\* what the history keeps of a reconciliation that ended: its desired minimum
\* when it read one autoscaler and no step failed
Summary ==
  IF failedAt = "none" /\ readMinimum # << >> /\ ~disturbed THEN <<minimumNumberOfInstances>> ELSE << >>

\* a variant in which the same target is taken again
Retry == idx' = idx /\ pc' = "fetch"

\* a variant in which the inner loop is left
Break == idx' = idx /\ pc' = "sleep"

\* `continue`, or the end of the body: the next element of the range, or the
\* end of the inner loop
Continue ==
  IF idx < Len(migConfigs)
    THEN idx' = idx + 1 /\ pc' = "fetch"
    ELSE idx' = idx /\ pc' = "sleep"


\* a variant in which the filter names the group of the first target
ListedAutoscalerOfFirst(i) == cloud[1]

\* the autoscaler the list call returns for the group of target i
ListedAutoscaler(i) == cloud[i]

\* no second instance runs
NoPeer ==
  [pc |-> "none", minimumNumberOfInstances |-> 0, autoScaler |-> << >>, failedAt |-> "none",
   updates |-> 0]

\* ------------------------------------------------------------------- Init
Init ==
  /\ migConfig \in ConfigInputs
  /\ proc = "starting"
  /\ pc = "fetch"
  /\ idx = 0
  /\ resp = << >>
  /\ requestRate = 0
  /\ minimumNumberOfInstances = 0
  /\ migTargetSize = 0
  /\ autoScaler = << >>
  /\ autoscalerList = << >>
  /\ sleepTime = 0
  /\ openBodies = 0
  /\ peer = NoPeer
  /\ scraped = << >>
  /\ minInstancesVector = << >>
  /\ actualInstancesVector = << >>
  /\ requestRateVector = << >>
  /\ cloud \in [1..Len(migConfig.items) ->
                 {[MinNumReplicas |-> m, MaxNumReplicas |-> 20] : m \in PolicyMinimums}]
  /\ calls = << >>
  /\ failedAt = "none"
  /\ readMinimum = << >>
  /\ gaugeChanged = FALSE
  /\ attempted = << >>
  /\ disturbed = FALSE
  /\ previous = [i \in 1..Len(migConfig.items) |-> << >>]

gauges == <<minInstancesVector, actualInstancesVector, requestRateVector>>
locals ==
  <<resp, requestRate, minimumNumberOfInstances, migTargetSize, autoScaler, autoscalerList>>
aside == <<sleepTime, peer, scraped, openBodies>>
history == <<calls, failedAt, readMinimum, gaugeChanged, attempted, disturbed, previous>>

\* ---------------------------------------------------------------- actions
\* main, up to the start of the loop: the target list is unmarshalled and the
\* cloud client created; either failing is fatal
Startup ==
  /\ proc = "starting"
  /\ \/ /\ ~migConfig.wellFormed
        /\ proc' = "fatal"
        /\ UNCHANGED <<pc, idx>>
     \/ /\ migConfig.wellFormed
        /\ \E clientOk \in BOOLEAN :
             IF clientOk
               THEN /\ proc' = "running"
                    /\ IF Len(migConfigs) = 0
                         THEN pc' = "sleep" /\ idx' = 0
                         ELSE pc' = "fetch" /\ idx' = 1
               ELSE proc' = "fatal" /\ UNCHANGED <<pc, idx>>
  /\ UNCHANGED <<migConfig, aside, locals, gauges, cloud, history>>

\* the start of the body for configItem: the Prometheus query, the parsing of
\* its response and the calculation of the minimum.  The Close of the body
\* is deferred to the return of the goroutine's function, which the loop
\* never reaches; counted, the bodies left open are followed up to
\* MaxOpenBodies
QueryMetricsCounting(responses, counted) ==
  /\ proc = "running"
  /\ pc = "fetch"
  /\ counted => openBodies < MaxOpenBodies
  /\ \E r \in responses :
       LET f == QueryFailure(r) IN
         /\ openBodies' = IF counted /\ ~r.getErr THEN openBodies + 1 ELSE openBodies
         /\ resp' = <<r>>
         /\ failedAt' = f
         /\ IF f = "none"
              THEN /\ requestRate' = GetRequestRate(r.body)
                   /\ minimumNumberOfInstances' \in
                        CalculateMinimum(requestRate', configItem)
                   /\ pc' = "getIGM"
                   /\ idx' = idx
              ELSE /\ requestRate' = 0
                   /\ minimumNumberOfInstances' = 0
                   /\ Continue
  /\ migTargetSize' = 0
  /\ autoScaler' = << >>
  /\ autoscalerList' = << >>
  /\ calls' = <<"Query">>
  /\ readMinimum' = << >>
  /\ gaugeChanged' = FALSE
  /\ disturbed' = FALSE
  /\ attempted' = Append(attempted, idx)
  /\ previous' = IF idx > 1 THEN [previous EXCEPT ![idx - 1] = Summary] ELSE previous
  /\ UNCHANGED <<migConfig, sleepTime, peer, scraped, proc, gauges, cloud>>

QueryMetricsWith(responses) == QueryMetricsCounting(responses, FALSE)

QueryMetrics == QueryMetricsWith(Responses)

\* the read of the instance group manager; with neither location field set
\* no call is made, err is still nil and the nil instanceGroupManager is
\* dereferenced
GetInstanceGroupManager ==
  /\ proc = "running"
  /\ pc = "getIGM"
  /\ IF Family(configItem) = "None"
       THEN /\ proc' = "panicked"
            /\ UNCHANGED <<pc, idx, migTargetSize, calls, failedAt>>
       ELSE /\ calls' = Append(calls, Family(configItem) \o "Get")
            /\ proc' = proc
            /\ \/ /\ failedAt' = "igm"
                  /\ migTargetSize' = migTargetSize
                  /\ Continue
               \/ /\ \E size \in TargetSizes : migTargetSize' = size
                  /\ pc' = "setMin"
                  /\ UNCHANGED <<idx, failedAt>>
  /\ UNCHANGED <<migConfig, aside, resp, requestRate, minimumNumberOfInstances, autoScaler,
                 autoscalerList, gauges, cloud, readMinimum, gaugeChanged, attempted,
                 disturbed, previous>>

SetMinInstances ==
  /\ proc = "running"
  /\ pc = "setMin"
  /\ minInstancesVector' =
       SetGauge(minInstancesVector, configItem.InstanceGroupName, minimumNumberOfInstances)
  /\ gaugeChanged' = (gaugeChanged \/ minInstancesVector' # minInstancesVector)
  /\ pc' = "setActual"
  /\ UNCHANGED <<migConfig, aside, proc, idx, locals, actualInstancesVector, requestRateVector,
                 cloud, calls, failedAt, readMinimum, attempted, disturbed, previous>>

SetActualInstances ==
  /\ proc = "running"
  /\ pc = "setActual"
  /\ actualInstancesVector' =
       SetGauge(actualInstancesVector, configItem.InstanceGroupName, migTargetSize)
  /\ gaugeChanged' = (gaugeChanged \/ actualInstancesVector' # actualInstancesVector)
  /\ pc' = "setRate"
  /\ UNCHANGED <<migConfig, aside, proc, idx, locals, minInstancesVector, requestRateVector,
                 cloud, calls, failedAt, readMinimum, attempted, disturbed, previous>>

\* the third gauge, and the test of EnableSettingMinInstances that ends the
\* body for a target that only observes
SetRequestRate ==
  /\ proc = "running"
  /\ pc = "setRate"
  /\ requestRateVector' =
       SetGauge(requestRateVector, configItem.InstanceGroupName, requestRate)
  /\ gaugeChanged' = (gaugeChanged \/ requestRateVector' # requestRateVector)
  /\ IF SetsMinInstances(configItem)
       THEN pc' = "list" /\ idx' = idx
       ELSE Continue
  /\ UNCHANGED <<migConfig, aside, proc, locals, minInstancesVector, actualInstancesVector,
                 cloud, calls, failedAt, readMinimum, attempted, disturbed, previous>>

ListResults ==
  {[err |-> TRUE, count |-> 0]} \cup {[err |-> FALSE, count |-> n] : n \in 0..2}

\* the lookup of the autoscaler whose target is the group
ListAutoscalers ==
  /\ proc = "running"
  /\ pc = "list"
  /\ calls' = Append(calls, Family(configItem) \o "List")
  /\ \E res \in ListResults :
       /\ autoscalerList' = <<res>>
       /\ IF LookupFailure(res) # "none"
            THEN /\ failedAt' = LookupFailure(res)
                 /\ Continue
                 /\ UNCHANGED <<autoScaler, readMinimum>>
            ELSE /\ autoScaler' = <<ListedAutoscaler(idx)>>
                 /\ readMinimum' = <<autoScaler'[1].MinNumReplicas>>
                 /\ pc' = "update"
                 /\ UNCHANGED <<idx, failedAt>>
  /\ UNCHANGED <<migConfig, aside, proc, resp, requestRate, minimumNumberOfInstances, migTargetSize,
                 gauges, cloud, gaugeChanged, attempted, disturbed, previous>>

\* the comparison and, when the minimum differs, the update of the object
\* that was read with its MinNumReplicas replaced
UpdateAutoscaler ==
  /\ proc = "running"
  /\ pc = "update"
  /\ IF NeedsUpdate(autoScaler[1], minimumNumberOfInstances)
       THEN /\ autoScaler' = <<SubmittedAutoscaler(autoScaler[1], minimumNumberOfInstances)>>
            /\ calls' = Append(calls, Family(configItem) \o "Update")
            /\ \/ /\ cloud' = [cloud EXCEPT ![idx] = autoScaler'[1]]
                  /\ failedAt' = failedAt
               \/ /\ cloud' = cloud
                  /\ failedAt' = "update"
       ELSE UNCHANGED <<autoScaler, calls, cloud, failedAt>>
  /\ Continue
  /\ UNCHANGED <<migConfig, aside, proc, resp, requestRate, minimumNumberOfInstances, migTargetSize,
                 autoscalerList, gauges, readMinimum, gaugeChanged, attempted, disturbed,
                 previous>>

\* the end of a cycle: the jittered sleep, then the next cycle.  sleepTime is
\* local to the iteration that ends with the sleep; recorded, the value drawn
\* is kept as history
SleepDrawing(recorded) ==
  /\ proc = "running"
  /\ pc = "sleep"
  /\ sleepTime' \in {IF recorded THEN drawn ELSE sleepTime : drawn \in ApplyJitter(Interval)}
  /\ IF Len(migConfigs) = 0
       THEN UNCHANGED <<pc, idx, previous>>
       ELSE /\ pc' = "fetch"
            /\ idx' = 1
            /\ previous' = [previous EXCEPT ![Len(migConfigs)] = Summary]
  /\ resp' = << >>
  /\ requestRate' = 0
  /\ minimumNumberOfInstances' = 0
  /\ migTargetSize' = 0
  /\ autoScaler' = << >>
  /\ autoscalerList' = << >>
  /\ calls' = << >>
  /\ failedAt' = "none"
  /\ readMinimum' = << >>
  /\ gaugeChanged' = FALSE
  /\ disturbed' = FALSE
  /\ attempted' = << >>
  /\ UNCHANGED <<migConfig, peer, scraped, openBodies, proc, gauges, cloud>>

Sleep == SleepDrawing(FALSE)

\* another actor sets the MinNumReplicas of a target's autoscaler
OtherActor ==
  /\ proc = "running"
  /\ \E i \in 1..Len(migConfigs) :
       /\ \E m \in PolicyMinimums \ {cloud[i].MinNumReplicas} :
            cloud' = [cloud EXCEPT ![i].MinNumReplicas = m]
       /\ previous' = [previous EXCEPT ![i] = << >>]
       /\ disturbed' = (disturbed \/ (i = HistoryTarget /\ readMinimum # << >>))
  /\ UNCHANGED <<migConfig, aside, proc, pc, idx, locals, gauges, calls, failedAt, readMinimum,
                 gaugeChanged, attempted>>

\* SIGTERM or SIGINT: main returns, nothing having been added to the wait
\* group, and the process ends with its locals and its gauges
Shutdown ==
  /\ proc = "running"
  /\ proc' = "stopped"
  /\ pc' = "fetch"
  /\ idx' = 0
  /\ resp' = << >>
  /\ requestRate' = 0
  /\ minimumNumberOfInstances' = 0
  /\ migTargetSize' = 0
  /\ autoScaler' = << >>
  /\ autoscalerList' = << >>
  /\ sleepTime' = 0
  /\ minInstancesVector' = << >>
  /\ actualInstancesVector' = << >>
  /\ requestRateVector' = << >>
  /\ calls' = << >>
  /\ failedAt' = "none"
  /\ readMinimum' = << >>
  /\ gaugeChanged' = FALSE
  /\ disturbed' = FALSE
  /\ attempted' = << >>
  /\ previous' = [i \in DOMAIN previous |-> << >>]
  /\ openBodies' = 0
  /\ UNCHANGED <<migConfig, peer, scraped, cloud>>

Next ==
  \/ Startup
  \/ QueryMetrics
  \/ GetInstanceGroupManager
  \/ SetMinInstances
  \/ SetActualInstances
  \/ SetRequestRate
  \/ ListAutoscalers
  \/ UpdateAutoscaler
  \/ Sleep
  \/ OtherActor
  \/ Shutdown

Spec == Init /\ [][Next]_vars

\* the calculation alone: the loop has started on one target, and the body
\* runs up to the calculated minimum on a sample of the range
InitCalc ==
  /\ migConfig \in {[wellFormed |-> TRUE, items |-> <<t>>] : t \in WideTargets}
  /\ proc = "running"
  /\ pc = "fetch"
  /\ idx = 1
  /\ resp = << >>
  /\ requestRate = 0
  /\ minimumNumberOfInstances = 0
  /\ migTargetSize = 0
  /\ autoScaler = << >>
  /\ autoscalerList = << >>
  /\ sleepTime = 0
  /\ openBodies = 0
  /\ peer = NoPeer
  /\ scraped = << >>
  /\ minInstancesVector = << >>
  /\ actualInstancesVector = << >>
  /\ requestRateVector = << >>
  /\ cloud \in [1..1 -> {[MinNumReplicas |-> m, MaxNumReplicas |-> 20] : m \in PolicyMinimums}]
  /\ calls = << >>
  /\ failedAt = "none"
  /\ readMinimum = << >>
  /\ gaugeChanged = FALSE
  /\ attempted = << >>
  /\ disturbed = FALSE
  /\ previous = <<<< >>>>

QueryMetricsWide == QueryMetricsWith(WideResponses)

NextCalc == QueryMetricsWide

SpecCalc == InitCalc /\ [][NextCalc]_vars

\* --------------------------------------------- the loop and other actors
\* MaxNumReplicas values an autoscaler holds, and the values another actor sets
PolicyMaximums == {20, 30}

\* lists of one target
SingleTargets == {[wellFormed |-> TRUE, items |-> <<t>>] : t \in Targets}

\* the locals and the history before the loop has run
Fresh ==
  /\ resp = << >>
  /\ requestRate = 0
  /\ minimumNumberOfInstances = 0
  /\ migTargetSize = 0
  /\ autoScaler = << >>
  /\ autoscalerList = << >>
  /\ sleepTime = 0
  /\ openBodies = 0
  /\ calls = << >>
  /\ failedAt = "none"
  /\ readMinimum = << >>
  /\ gaugeChanged = FALSE
  /\ attempted = << >>
  /\ disturbed = FALSE
  /\ previous = [i \in 1..Len(migConfig.items) |-> << >>]

NoGauges ==
  /\ minInstancesVector = << >>
  /\ actualInstancesVector = << >>
  /\ requestRateVector = << >>

InitActors ==
  /\ migConfig \in SingleTargets
  /\ proc = "starting"
  /\ pc = "fetch"
  /\ idx = 0
  /\ Fresh
  /\ NoGauges
  /\ peer = NoPeer
  /\ scraped = << >>
  /\ cloud \in [1..1 -> [MinNumReplicas : PolicyMinimums, MaxNumReplicas : PolicyMaximums]]

\* another actor sets the MaxNumReplicas of a target's autoscaler
OtherActorSetsMaximum ==
  /\ proc = "running"
  /\ \E i \in 1..Len(migConfigs) :
       /\ \E m \in PolicyMaximums \ {cloud[i].MaxNumReplicas} :
            cloud' = [cloud EXCEPT ![i].MaxNumReplicas = m]
       /\ previous' = [previous EXCEPT ![i] = << >>]
       /\ disturbed' = (disturbed \/ (i = HistoryTarget /\ readMinimum # << >>))
  /\ UNCHANGED <<migConfig, aside, proc, pc, idx, locals, gauges, calls, failedAt, readMinimum,
                 gaugeChanged, attempted>>

NextActors ==
  \/ Next
  \/ OtherActorSetsMaximum

SpecActors == InitActors /\ [][NextActors]_vars

\* ------------------------------------------------- two instances of the loop
\* A second instance of the program reconciles the same target with the same
\* metrics sample, and so with the same computed minimum; it is followed
\* through its autoscaler steps, which interleave with those of the first.
PeerStarts ==
  /\ proc = "running"
  /\ pc = "list"
  /\ peer = NoPeer
  /\ peer' = [NoPeer EXCEPT !.pc = "list",
                            !.minimumNumberOfInstances = minimumNumberOfInstances]
  /\ UNCHANGED <<migConfig, sleepTime, scraped, openBodies, proc, pc, idx, locals, gauges, cloud, history>>

\* the lookup of the autoscaler, by the second instance
PeerListAutoscalers ==
  /\ peer.pc = "list"
  /\ \E res \in ListResults :
       IF LookupFailure(res) # "none"
         THEN peer' = [peer EXCEPT !.pc = "done", !.failedAt = LookupFailure(res)]
         ELSE peer' = [peer EXCEPT !.pc = "update", !.autoScaler = <<ListedAutoscaler(idx)>>]
  /\ UNCHANGED <<migConfig, sleepTime, scraped, openBodies, proc, pc, idx, locals, gauges, cloud, history>>

\* the comparison and the update, by the second instance
PeerUpdateAutoscaler ==
  /\ peer.pc = "update"
  /\ IF NeedsUpdate(peer.autoScaler[1], peer.minimumNumberOfInstances)
       THEN LET submitted ==
                  SubmittedAutoscaler(peer.autoScaler[1], peer.minimumNumberOfInstances)
            IN  \/ /\ cloud' = [cloud EXCEPT ![idx] = submitted]
                   /\ peer' = [peer EXCEPT !.pc = "done", !.autoScaler = <<submitted>>,
                                           !.updates = peer.updates + 1]
                \/ /\ cloud' = cloud
                   /\ peer' = [peer EXCEPT !.pc = "done", !.autoScaler = <<submitted>>,
                                           !.updates = peer.updates + 1,
                                           !.failedAt = "update"]
       ELSE /\ peer' = [peer EXCEPT !.pc = "done"]
            /\ cloud' = cloud
  /\ UNCHANGED <<migConfig, sleepTime, scraped, openBodies, proc, pc, idx, locals, gauges, history>>

\* MinNumReplicas values the autoscaler holds when the two instances start
RunnerMinimums == PolicyMinimums \cup {8}

InitRunners ==
  /\ migConfig \in SingleTargets
  /\ proc = "starting"
  /\ pc = "fetch"
  /\ idx = 0
  /\ Fresh
  /\ NoGauges
  /\ peer = NoPeer
  /\ scraped = << >>
  /\ cloud \in [1..1 -> [MinNumReplicas : RunnerMinimums, MaxNumReplicas : PolicyMaximums]]

\* one reconciliation by each instance, and no other actor
NextRunners ==
  \/ Startup
  \/ QueryMetrics
  \/ GetInstanceGroupManager
  \/ SetMinInstances
  \/ SetActualInstances
  \/ SetRequestRate
  \/ ListAutoscalers
  \/ UpdateAutoscaler
  \/ PeerStarts
  \/ PeerListAutoscalers
  \/ PeerUpdateAutoscaler

SpecRunners == InitRunners /\ [][NextRunners]_vars

\* ------------------------------------------- the loop and the metrics endpoint
\* the values the reconciliation under way is setting on the gauges of its
\* target, while it is between the first and the last of the three Set calls
SettingGauges ==
  IF proc = "running" /\ pc \in {"setActual", "setRate"}
    THEN <<[label |-> configItem.InstanceGroupName,
            minInstances |-> minimumNumberOfInstances,
            actualInstances |-> migTargetSize,
            requestRate |-> requestRate]>>
    ELSE << >>

\* a request served by promhttp.Handler in the goroutine of the listener: the
\* gauges as they are at that moment; `during` is history
ServeMetrics ==
  /\ proc = "running"
  /\ scraped' = <<[minInstances |-> minInstancesVector,
                   actualInstances |-> actualInstancesVector,
                   requestRate |-> requestRateVector,
                   during |-> SettingGauges]>>
  /\ UNCHANGED <<migConfig, sleepTime, peer, openBodies, proc, pc, idx, locals, gauges, cloud, history>>

InitServe ==
  /\ migConfig \in SingleTargets
  /\ proc = "starting"
  /\ pc = "fetch"
  /\ idx = 0
  /\ Fresh
  /\ NoGauges
  /\ peer = NoPeer
  /\ scraped = << >>
  /\ cloud \in [1..1 -> [MinNumReplicas : PolicyMinimums, MaxNumReplicas : {20}]]

NextServe ==
  \/ Next
  \/ ServeMetrics

SpecServe == InitServe /\ [][NextServe]_vars

\* ------------------------------------------- a backend that never responds
\* pester.Get is called without a timeout and the cloud calls with
\* context.Background(): a call the backend never answers does not return
BackendNeverResponds ==
  /\ proc = "running"
  /\ \/ pc = "fetch"
     \/ pc = "getIGM" /\ Family(configItem) # "None"
     \/ pc = "list"
     \/ pc = "update" /\ NeedsUpdate(autoScaler[1], minimumNumberOfInstances)
  /\ pc' = "blocked"
  /\ UNCHANGED <<migConfig, aside, proc, idx, locals, gauges, cloud, history>>

\* the steps of the goroutine of the loop
Loop ==
  \/ QueryMetrics
  \/ GetInstanceGroupManager
  \/ SetMinInstances
  \/ SetActualInstances
  \/ SetRequestRate
  \/ ListAutoscalers
  \/ UpdateAutoscaler
  \/ Sleep

NextHang ==
  \/ Next
  \/ BackendNeverResponds

\* the goroutine is scheduled whenever it can take a step: a call that has
\* returned is followed by the next statement, and a sleep ends
SpecHang == Init /\ [][NextHang]_vars /\ WF_vars(Startup) /\ WF_vars(Loop)

\* ------------------------------------------------- the sleep between cycles
SleepRecorded == SleepDrawing(TRUE)

InitJitter ==
  /\ migConfig \in SingleTargets \cup {[wellFormed |-> TRUE, items |-> << >>]}
  /\ proc = "starting"
  /\ pc = "fetch"
  /\ idx = 0
  /\ Fresh
  /\ NoGauges
  /\ peer = NoPeer
  /\ scraped = << >>
  /\ cloud \in [1..Len(migConfig.items) ->
                 [MinNumReplicas : PolicyMinimums, MaxNumReplicas : {20}]]

\* the loop, the value each sleep draws being kept
NextJitter ==
  \/ Startup
  \/ QueryMetrics
  \/ GetInstanceGroupManager
  \/ SetMinInstances
  \/ SetActualInstances
  \/ SetRequestRate
  \/ ListAutoscalers
  \/ UpdateAutoscaler
  \/ SleepRecorded
  \/ OtherActor
  \/ Shutdown

SpecJitter == InitJitter /\ [][NextJitter]_vars

\* ------------------------------------------------- the loop left to itself
\* targets that set the minimum of an autoscaler, with a capacity
ConvergingTargets ==
  {t \in Targets : SetsMinInstances(t) /\ t.NumberOfRequestsPerInstance # 0}

InitConverge ==
  /\ migConfig \in {[wellFormed |-> TRUE, items |-> <<t>>] : t \in ConvergingTargets}
  /\ proc = "starting"
  /\ pc = "fetch"
  /\ idx = 0
  /\ Fresh
  /\ NoGauges
  /\ peer = NoPeer
  /\ scraped = << >>
  /\ cloud \in [1..1 -> [MinNumReplicas : RunnerMinimums, MaxNumReplicas : {20}]]

\* the loop, with no other actor on the autoscaler
NextConverge ==
  \/ Startup
  \/ Loop
  \/ Shutdown

\* the goroutine is scheduled whenever it can take a step
SpecConverge == InitConverge /\ [][NextConverge]_vars /\ WF_vars(Startup) /\ WF_vars(Loop)

\* ------------------------------------------------- the response bodies
QueryMetricsCounted == QueryMetricsCounting(Responses, TRUE)

InitBodies ==
  /\ migConfig \in SingleTargets
  /\ proc = "starting"
  /\ pc = "fetch"
  /\ idx = 0
  /\ Fresh
  /\ NoGauges
  /\ peer = NoPeer
  /\ scraped = << >>
  /\ cloud \in [1..1 -> [MinNumReplicas : PolicyMinimums, MaxNumReplicas : {20}]]

\* the loop, the response bodies it leaves open being counted
NextBodies ==
  \/ Startup
  \/ QueryMetricsCounted
  \/ GetInstanceGroupManager
  \/ SetMinInstances
  \/ SetActualInstances
  \/ SetRequestRate
  \/ ListAutoscalers
  \/ UpdateAutoscaler
  \/ Sleep
  \/ OtherActor
  \/ Shutdown

SpecBodies == InitBodies /\ [][NextBodies]_vars

TypeOK ==
  /\ proc \in {"starting", "running", "fatal", "panicked", "stopped"}
  /\ pc \in {"fetch", "getIGM", "setMin", "setActual", "setRate", "list", "update", "sleep",
            "blocked"}
  /\ idx \in 0..MaxTargets
  /\ \A i \in DOMAIN migConfigs : migConfigs[i] \in MIGConfiguration
  /\ Len(migConfigs) <= MaxTargets
  /\ requestRate \in Rates
  /\ minimumNumberOfInstances \in IntMin..IntMax
  /\ migTargetSize \in TargetSizes \cup {0}
  /\ DOMAIN minInstancesVector \subseteq GroupNames
  /\ DOMAIN actualInstancesVector \subseteq GroupNames
  /\ DOMAIN requestRateVector \subseteq GroupNames
  /\ \A i \in DOMAIN cloud : cloud[i].MinNumReplicas \in IntMin..IntMax


\* ------------------------------------------------------ claims: vocabulary
\* the body for a target has ended and the next has not begun
Finished ==
  /\ proc = "running"
  /\ \/ pc = "fetch" /\ idx > 1
     \/ pc = "sleep" /\ Len(migConfigs) > 0

\* the target the history is about
historyItem == migConfigs[HistoryTarget]

Issued(suffix) ==
  \E k \in DOMAIN calls : calls[k] \in {"Region" \o suffix, "Zone" \o suffix}

UpdateIssued == Issued("Update")

\* the autoscaler was read and its minimum differs from the desired one
Drift == readMinimum # << >> /\ readMinimum[1] # minimumNumberOfInstances

\* the metrics step did not yield a sample: fetch error, unreadable body,
\* undecodable payload, or a result that is not exactly one series
NoSample ==
  /\ resp # << >>
  /\ \/ resp[1].getErr
     \/ resp[1].readErr
     \/ ~resp[1].body.decodable
     \/ Len(resp[1].body.result) # 1

\* the loop has left the target of the history for the next one, or for the
\* sleep after the last one
MovedOn ==
  /\ proc = "running"
  /\ attempted # << >>
  /\ \/ pc = "fetch" /\ idx = attempted[Len(attempted)] + 1
     \/ pc = "sleep" /\ attempted[Len(attempted)] = Len(migConfigs)

\* the desired minimum of the history's target was calculated
Calculated == resp # << >> /\ ~NoSample

\* the least integer n with n * capacity >= rate, for capacity > 0, rate >= 0
ExactCeiling(rate, capacity) ==
  CHOOSE n \in 0..(rate + 1) :
    /\ n * capacity >= rate
    /\ (n - 1) * capacity < rate

Maximum(a, b) == IF a >= b THEN a ELSE b


\* ------------------------------------------------------------------ claims
\* C1: an update call is issued in a reconciliation if and only if the
\* target has EnableSettingMinInstances set and the MinNumReplicas just read
\* differs from the minimum computed in that reconciliation; no update is
\* ever issued for a target that has the flag unset.
C1_UpdateIffEnabledAndDrift ==
  /\ UpdateIssued => (historyItem.EnableSettingMinInstances /\ Drift)
  /\ (Finished /\ historyItem.EnableSettingMinInstances /\ Drift) => UpdateIssued

\* a reconciliation that ended after issuing an update
C1_Witness ==
  /\ Finished
  /\ UpdateIssued
  /\ historyItem.EnableSettingMinInstances
  /\ Drift

\* C2: the gauges of a target are changed in a reconciliation only if every
\* step of it succeeded, the autoscaler lookup and the update included.
C2_GaugesOnlyOnFullSuccess == failedAt # "none" => ~gaugeChanged

\* a step of the loop in which a step of the reconciliation fails
FailingStep ==
  /\ failedAt' # "none"
  /\ attempted' # attempted \/ calls' # calls

\* C3: a failure at any step of a target's reconciliation ends only that
\* target's processing: the failing step changes no gauge and no autoscaler
\* of another target and leaves the loop running at the next target (or at
\* the sleep after the last one), and every cycle that reaches its sleep has
\* attempted all the targets, in order.
C3_FailureEndsOnlyThatTarget ==
  /\ [](proc = "running" /\ pc = "sleep"
          => attempted = [i \in 1..Len(attempted) |-> i]
             /\ (attempted # << >> => Len(attempted) = Len(migConfigs)))
  /\ [][FailingStep =>
          /\ proc' = "running"
          /\ IF idx < Len(migConfigs)
               THEN pc' = "fetch" /\ idx' = idx + 1
               ELSE pc' = "sleep"
          /\ UNCHANGED gauges
          /\ \A j \in DOMAIN cloud : j # idx => cloud'[j] = cloud[j]]_vars

\* a target other than the last failed, and the loop is at the next target
C3_Witness ==
  /\ proc = "running"
  /\ failedAt \in {"igm", "list", "count", "update"}
  /\ pc = "fetch"
  /\ idx = HistoryTarget + 1
  /\ idx > 1


\* C4: once the loop has started, nothing met while reconciling a target
\* ends it: the process leaves the running state only by a shutdown signal.
C4_OnlyShutdownEndsLoop ==
  [][proc = "running" => proc' \in {"running", "stopped"}]_vars

AmbiguousLocation(item) ==
  (item.GCloudZone # "" /\ item.GCloudRegion # "")
    \/ (item.GCloudZone = "" /\ item.GCloudRegion = "")

\* C5: with a target list that is malformed or holds a target with both or
\* neither of zone and region, the loop never begins and no backend call is
\* made.
C5_AmbiguousLocationIsFatal ==
  (~migConfig.wellFormed \/ \E i \in DOMAIN migConfigs : AmbiguousLocation(migConfigs[i]))
    => (proc \in {"starting", "fatal"} /\ calls = << >>)

\* C6: the division of the rate by the capacity is never executed with
\* capacity 0.
C6_NoDivisionByZeroCapacity ==
  (proc \in {"running", "panicked"} /\ Calculated)
    => historyItem.NumberOfRequestsPerInstance # 0

\* C7: the minimum computed from the sample is
\* max(floor, ceil(rate / capacity) - margin), for a capacity other than 0;
\* 58.0, 5.8, margin 2, floor 3 give 8 and rate 0, margin 2, floor 3 give 3.
C7_DesiredMinimumFormula ==
  (proc \in {"running", "panicked"} /\ Calculated
     /\ historyItem.NumberOfRequestsPerInstance # 0)
    => /\ minimumNumberOfInstances =
            Maximum(historyItem.MinimumNumberOfInstances,
                    ExactCeiling(requestRate, historyItem.NumberOfRequestsPerInstance)
                      - historyItem.NumberOfInstancesBelowTarget)
       /\ (requestRate = 580 /\ historyItem.NumberOfRequestsPerInstance = 58
             /\ historyItem.NumberOfInstancesBelowTarget = 2
             /\ historyItem.MinimumNumberOfInstances = 3)
            => minimumNumberOfInstances = 8
       /\ (requestRate = 0 /\ historyItem.NumberOfInstancesBelowTarget = 2
             /\ historyItem.MinimumNumberOfInstances = 3)
            => minimumNumberOfInstances = 3

\* the minimum was calculated from a rate that is not a multiple of the
\* capacity
C7_Witness ==
  /\ proc = "running"
  /\ Calculated
  /\ requestRate = 580
  /\ historyItem.NumberOfRequestsPerInstance = 60
  /\ minimumNumberOfInstances = 10

\* C8: the computed minimum is at least the configured minimum of the
\* target, and so is every value the loop submits as MinNumReplicas and
\* every value it sets on the minimum-instances gauge.
C8_AtLeastFloor ==
  /\ []((proc \in {"running", "panicked"} /\ Calculated)
          => minimumNumberOfInstances >= historyItem.MinimumNumberOfInstances)
  /\ [][/\ (proc' = "running" /\ calls' # calls /\ UpdateIssued')
             => autoScaler'[1].MinNumReplicas >= configItem.MinimumNumberOfInstances
        /\ (proc' = "running" /\ pc = "setMin" /\ pc' = "setActual")
             => minInstancesVector'[configItem.InstanceGroupName]
                  >= configItem.MinimumNumberOfInstances]_vars

\* the clamp decided the value that was submitted to the autoscaler
C8_Witness ==
  /\ Finished
  /\ UpdateIssued
  /\ requestRate = 0
  /\ historyItem.NumberOfInstancesBelowTarget = 2
  /\ minimumNumberOfInstances = historyItem.MinimumNumberOfInstances
  /\ minInstancesVector[historyItem.InstanceGroupName] = minimumNumberOfInstances

\* C9: when the metrics step yields no sample the target is skipped: the
\* query is the only backend call of its reconciliation, no gauge is
\* changed, and the loop is at the next target or at the sleep.
C9_NoSampleSkipsTarget ==
  (proc \in {"running", "panicked"} /\ NoSample)
    => /\ calls = <<"Query">>
       /\ ~gaugeChanged
       /\ MovedOn

\* the backend answered with zero series for a target that is not the last
C9_Witness ==
  /\ proc = "running"
  /\ resp # << >>
  /\ resp[1].body.decodable
  /\ resp[1].body.result = << >>
  /\ ~resp[1].getErr /\ ~resp[1].readErr
  /\ pc = "fetch"
  /\ idx = 2
  /\ attempted = <<1>>

\* C10: when a target is reconciled twice in a row with the same desired
\* minimum, every call succeeding and no other actor changing the
\* autoscaler in between, the second reconciliation issues no update; and no
\* reconciliation issues more than one.
C10_SecondReconciliationIsNoOp ==
  /\ Cardinality({k \in DOMAIN calls : calls[k] \in {"RegionUpdate", "ZoneUpdate"}}) <= 1
  /\ (/\ Finished
      /\ previous[HistoryTarget] # << >>
      /\ Summary # << >>
      /\ previous[HistoryTarget][1] = minimumNumberOfInstances)
       => ~UpdateIssued

\* the second of two such reconciliations has ended, the first having
\* written the minimum
C10_Witness ==
  /\ Finished
  /\ previous[HistoryTarget] # << >>
  /\ Summary # << >>
  /\ previous[HistoryTarget][1] = minimumNumberOfInstances
  /\ readMinimum[1] = 8
  /\ calls = <<"Query", "RegionGet", "RegionList">>

\* a step of the loop that issues an update call
UpdateStep == proc' = "running" /\ calls' # calls /\ UpdateIssued'

\* C11: the object an update submits is the object the lookup of that
\* reconciliation returned, with MinNumReplicas set to the computed minimum
\* and every other field as it was read, whatever the autoscaler holds by
\* then; an update that succeeds leaves the autoscaler equal to that object.
C11_UpdateCarriesObjectAsRead ==
  [][/\ (proc' = "running" /\ pc = "list" /\ pc' = "update")
          => autoScaler' = <<cloud[idx]>>
     /\ (proc' = "running" /\ pc = "update" /\ pc' = "update")
          => autoScaler' = autoScaler
     /\ UpdateStep
          => /\ pc = "update"
             /\ autoScaler'[1].MinNumReplicas = minimumNumberOfInstances
             /\ autoScaler'[1].MaxNumReplicas = autoScaler[1].MaxNumReplicas
             /\ failedAt' = "none" => cloud'[idx] = autoScaler'[1]]_vars

\* minimum 5 was read with a maximum of 30, 8 was computed, and the update
\* went through
C11_Witness ==
  /\ Finished
  /\ UpdateIssued
  /\ failedAt = "none"
  /\ readMinimum = <<5>>
  /\ minimumNumberOfInstances = 8
  /\ autoScaler = <<[MinNumReplicas |-> 8, MaxNumReplicas |-> 30]>>
  /\ cloud[HistoryTarget] = autoScaler[1]

\* the lookup of the history's target returned no autoscaler, or several
AmbiguousLookup ==
  /\ autoscalerList # << >>
  /\ ~autoscalerList[1].err
  /\ autoscalerList[1].count # 1

ListCalls == {k \in DOMAIN calls : calls[k] \in {"RegionList", "ZoneList"}}

\* C12: when the lookup of a target's autoscaler returns zero or more than
\* one autoscaler, its reconciliation issues no update, the lookup is its
\* last backend call and is made once, and the loop is at the next target or
\* at the sleep.
C12_AmbiguousLookupSkipsTarget ==
  AmbiguousLookup
    => /\ ~UpdateIssued
       /\ Cardinality(ListCalls) = 1
       /\ ListCalls = {Len(calls)}
       /\ MovedOn

\* the lookup returned two autoscalers for a target whose autoscaler does not
\* hold the computed minimum, and the loop is at the second target
C12_Witness ==
  /\ AmbiguousLookup
  /\ autoscalerList[1].count = 2
  /\ cloud[HistoryTarget].MinNumReplicas # minimumNumberOfInstances
  /\ pc = "fetch"
  /\ idx = 2
  /\ attempted = <<1>>

\* both instances have ended their reconciliation of the target without a
\* failed call
BothRunnersDone ==
  /\ proc = "running"
  /\ pc = "sleep"
  /\ failedAt = "none"
  /\ peer.pc = "done"
  /\ peer.failedAt = "none"

\* a step in which either instance issues an update call
UpdateByEither == UpdateStep \/ peer'.updates > peer.updates

\* the autoscaler holds the minimum both instances computed
RunnersMinimumReached ==
  /\ peer.pc # "none"
  /\ cloud[1].MinNumReplicas = peer.minimumNumberOfInstances

\* C13 as stated: with two instances and no other actor the minimum ends at
\* the computed one, no other field changes, and no update call is issued
\* once the autoscaler holds the computed minimum.
C13_NoUpdateOnceMinimumReached ==
  /\ [](BothRunnersDone => cloud[1].MinNumReplicas = minimumNumberOfInstances)
  /\ [][cloud'[1].MaxNumReplicas = cloud[1].MaxNumReplicas]_vars
  /\ [][RunnersMinimumReached => ~UpdateByEither]_vars

\* C13: with two instances and no other actor the minimum ends at the
\* computed one, no other field changes, each instance issues at most one
\* update, and an instance whose own lookup returned the computed minimum
\* issues none.
C13_RunnersConverge ==
  /\ [](BothRunnersDone => cloud[1].MinNumReplicas = minimumNumberOfInstances)
  /\ [](peer.updates <= 1)
  /\ [][cloud'[1].MaxNumReplicas = cloud[1].MaxNumReplicas]_vars
  /\ [][/\ UpdateStep => readMinimum[1] # minimumNumberOfInstances
        /\ peer'.updates > peer.updates
             => peer.autoScaler[1].MinNumReplicas # peer.minimumNumberOfInstances]_vars

\* both instances read 5 before either wrote, and both wrote 8
C13_Witness ==
  /\ BothRunnersDone
  /\ readMinimum = <<5>>
  /\ UpdateIssued
  /\ peer.updates = 1
  /\ cloud[1].MinNumReplicas = 8
  /\ minimumNumberOfInstances = 8

\* C14: whatever the metrics endpoint serves, the gauges of a target are of
\* one reconciliation: served between two of the three Set calls, the gauges
\* of the target that an earlier cycle has set already carry the values of
\* the reconciliation under way.
C14_GaugesUpdatedAtomically ==
  (scraped # << >> /\ scraped[1].during # << >>)
    => LET s == scraped[1]
           now == s.during[1]
       IN  (now.label \in DOMAIN s.actualInstances \cap DOMAIN s.requestRate)
             => /\ s.minInstances[now.label] = now.minInstances
                /\ s.actualInstances[now.label] = now.actualInstances
                /\ s.requestRate[now.label] = now.requestRate

\* C15: no backend call blocks the loop: a cycle that is under way reaches
\* its sleep, and a sleep is followed by the next cycle, unless the process
\* ends.
C15_CycleAlwaysCompletes ==
  /\ (proc = "running" /\ pc # "sleep") ~> (proc # "running" \/ pc = "sleep")
  /\ (proc = "running" /\ pc = "sleep" /\ Len(migConfigs) > 0)
       ~> (proc # "running" \/ pc # "sleep")

\* C16: every sleep duration drawn for the interval 60 is at least 45 and
\* less than 75, and each of the integers 45..74 is a value the draw can
\* yield.
C16_SleepTimeInRange ==
  /\ sleepTime # 0 => (45 <= sleepTime /\ sleepTime < 75)
  /\ \A d \in 45..74 : d \in ApplyJitter(Interval)

\* the loop slept for the largest duration of the range
C16_Witness ==
  /\ proc = "running"
  /\ pc = "fetch"
  /\ idx = 1
  /\ sleepTime = 74

\* the history's target with another margin
WithMargin(margin) == [historyItem EXCEPT !.NumberOfInstancesBelowTarget = margin]

\* C17: for a capacity other than 0, no smaller rate yields a larger minimum
\* than the one computed, the other settings being the same, and no smaller
\* margin yields a smaller minimum.
C17_CalculationIsMonotone ==
  (proc = "running" /\ Calculated /\ historyItem.NumberOfRequestsPerInstance # 0)
    => /\ \A rate \in 0..requestRate :
            \A m \in CalculateMinimum(rate, historyItem) : m <= minimumNumberOfInstances
       /\ \A margin \in 0..historyItem.NumberOfInstancesBelowTarget :
            \A m \in CalculateMinimum(requestRate, WithMargin(margin)) :
              m >= minimumNumberOfInstances

\* a minimum above the floor, which a smaller rate and a larger margin lower
C17_Witness ==
  /\ proc = "running"
  /\ Calculated
  /\ requestRate = 64
  /\ historyItem.NumberOfRequestsPerInstance = 12
  /\ historyItem.NumberOfInstancesBelowTarget = 2
  /\ historyItem.MinimumNumberOfInstances = 1
  /\ minimumNumberOfInstances = 4
  /\ CalculateMinimum(60, historyItem) = {3}
  /\ CalculateMinimum(64, WithMargin(3)) = {3}

\* a step of the loop in which an update call succeeds
UpdateApplied == UpdateStep /\ failedAt' = "none"

\* C18: an update of the loop leaves every field of the autoscaler other than
\* MinNumReplicas as it is at the provider when the update arrives, so that
\* a value another actor has set since the loop read the object is kept.
C18_UpdateKeepsOtherActorsChange ==
  [][UpdateApplied => cloud'[idx].MaxNumReplicas = cloud[idx].MaxNumReplicas]_vars

\* C19: within a cycle the targets are attempted one after the other in the
\* order of the list, each once: the targets attempted so far are the first
\* ones of the list up to the one the loop is at, whatever the outcome of any
\* reconciliation; the sleep begins with all of them attempted and is
\* followed by the first target again.
C19_EachTargetOncePerCycle ==
  /\ [](proc \in {"running", "panicked"}
          => /\ attempted = [i \in 1..Len(attempted) |-> i]
             /\ Len(attempted) = HistoryTarget)
  /\ [][/\ (proc' = "running" /\ attempted' # attempted /\ attempted' # << >>)
             => /\ attempted' = Append(attempted, Len(attempted) + 1)
                /\ idx = Len(attempted) + 1
        /\ (proc' = "running" /\ attempted # << >> /\ attempted' = << >>)
             => /\ pc = "sleep"
                /\ Len(attempted) = Len(migConfigs)
                /\ pc' = "fetch"
                /\ idx' = 1]_vars

\* a cycle is at its sleep, having reconciled the second target after the
\* first one failed
C19_Witness ==
  /\ proc = "running"
  /\ pc = "sleep"
  /\ attempted = <<1, 2>>
  /\ failedAt = "none"
  /\ migConfigs[1].InstanceGroupName = "mig-a"
  /\ DOMAIN minInstancesVector = {"mig-b"}

UpdateCalls == {k \in DOMAIN calls : calls[k] \in {"RegionUpdate", "ZoneUpdate"}}

\* C20: an update call directly follows the list call of the same
\* reconciliation; the list call returns what the autoscaler of the target
\* under reconciliation holds at that moment, the value compared with the
\* computed minimum is the one it returned, and a reconciliation holds no
\* autoscaler value before its own list call.
C20_UpdateFollowsItsRead ==
  /\ [](proc = "running"
          => /\ \A k \in UpdateCalls :
                  k > 1 /\ calls[k - 1] = Family(historyItem) \o "List"
             /\ pc \in {"getIGM", "setMin", "setActual", "setRate", "list"}
                  => autoScaler = << >> /\ readMinimum = << >>
             /\ pc = "update"
                  => /\ calls[Len(calls)] = Family(configItem) \o "List"
                     /\ autoScaler # << >>
                     /\ autoScaler[1].MinNumReplicas = readMinimum[1])
  /\ [][/\ (proc' = "running" /\ pc = "list" /\ pc' = "update")
             => readMinimum' = <<cloud[idx].MinNumReplicas>>
        /\ (proc' = "running" /\ pc = "update" /\ pc' = "update")
             => readMinimum' = readMinimum
        /\ UpdateStep
             => /\ pc = "update"
                /\ calls' = Append(calls, Family(configItem) \o "Update")
                /\ readMinimum[1] # minimumNumberOfInstances]_vars

\* the second target was updated from the 5 its own autoscaler held, the
\* autoscaler of the first target holding another value
C20_Witness ==
  /\ Finished
  /\ HistoryTarget = 2
  /\ calls = <<"Query", "ZoneGet", "ZoneList", "ZoneUpdate">>
  /\ failedAt = "none"
  /\ readMinimum = <<5>>
  /\ cloud[1].MinNumReplicas # 5

\* the response that holds the one sample `rate`
Sample(rate) ==
  [getErr |-> FALSE, readErr |-> FALSE, body |-> [decodable |-> TRUE, result |-> <<rate>>]]

\* the loop runs, no step of the reconciliation under way has failed, and
\* its sample, if it has one, is `rate`
Steady(rate) ==
  /\ proc = "running"
  /\ failedAt = "none"
  /\ resp # << >> => resp[1] = Sample(rate)

\* the autoscaler holds the minimum computed from `rate`
Converged(rate) == cloud[1].MinNumReplicas \in CalculateMinimum(rate, migConfigs[1])

\* C21: if from some moment on every reconciliation of the target samples
\* the same rate and none of its steps fails, no other actor changing the
\* autoscaler, then from some moment on the autoscaler holds the minimum
\* computed from that rate, for good.
C21_Converges ==
  \A rate \in Rates : <>[]Steady(rate) => <>[]Converged(rate)

\* a reconciliation that found the minimum an earlier one had written, a
\* value the autoscaler did not hold at first, and issued no update
C21_Witness ==
  /\ Finished
  /\ Steady(580)
  /\ Converged(580)
  /\ readMinimum = <<minimumNumberOfInstances>>
  /\ calls = <<"Query", Family(migConfigs[1]) \o "Get", Family(migConfigs[1]) \o "List">>
  /\ minimumNumberOfInstances # 5
  /\ minimumNumberOfInstances # 8

\* the reconciliation the history is about has set the first n of its
\* three gauges
GaugesSet(n) ==
  /\ proc = "running"
  /\ migTargetSize # 0
  /\ \/ n <= 1 /\ pc = "setActual"
     \/ n <= 2 /\ pc = "setRate"
     \/ pc \notin {"setMin", "setActual", "setRate"}

\* C22: the gauges a reconciliation sets carry its own values: the minimum
\* it computed from its sample, the target size it read and its sample,
\* whether or not the target has EnableSettingMinInstances and whatever
\* becomes of the lookup and the update that follow.
C22_GaugesOfOneReconciliation ==
  LET label == historyItem.InstanceGroupName IN
    /\ GaugesSet(1)
         => /\ minInstancesVector[label] = minimumNumberOfInstances
            /\ requestRate = GetRequestRate(resp[1].body)
            /\ minimumNumberOfInstances \in CalculateMinimum(requestRate, historyItem)
    /\ GaugesSet(2) => actualInstancesVector[label] = migTargetSize
    /\ GaugesSet(3) => requestRateVector[label] = requestRate

\* the second cycle has set the gauges to 8, 4 and 58.0, the first having
\* set them from rate 0, and its update failed
C22_Witness ==
  /\ Finished
  /\ GaugesSet(3)
  /\ failedAt = "update"
  /\ gaugeChanged
  /\ previous[HistoryTarget] # << >>
  /\ minInstancesVector[historyItem.InstanceGroupName] = 8
  /\ actualInstancesVector[historyItem.InstanceGroupName] = 4
  /\ requestRateVector[historyItem.InstanceGroupName] = 580
  /\ cloud[HistoryTarget].MinNumReplicas # 8

\* C23: the loop holds at most one response body open, and none once the
\* reconciliation that opened it has ended.
C23_BodyClosedWithReconciliation ==
  proc = "running"
    => /\ openBodies <= 1
       /\ pc \in {"fetch", "sleep"} => openBodies = 0

====
